---- MODULE Spec2Model ----
(***************************************************************************)
(* Model of MyDict (src/dict_task/my_dict.py): a dictionary made of a      *)
(* fixed table of HASH_LIMIT buckets, each a list of DataPair sorted by    *)
(* key, with a set of active bucket indices, a set of present keys and an  *)
(* insertion-order counter.                                                *)
(***************************************************************************)
EXTENDS Integers, Sequences, FiniteSets, TLC

\* my_dict.py:7
HASH_LIMIT == 1028

\* Bound of the model: no new DataPair is created once the counter is here.
MaxOrder == 3

----------------------------------------------------------------------------
\* Keys.  A key is a Python object; the model keeps its type and its content.
\*   int  : hashable, ordered among ints
\*   str  : hashable, ordered among strs, '<' against an int raises TypeError
\*   list : not hashable

IntKey(n) == [kind |-> "int", n |-> n]
StrKey(n) == [kind |-> "str", n |-> n]
ListKey(n) == [kind |-> "list", n |-> n]

\* 1 and 1029 share bucket 1.
IntKeys == {IntKey(1), IntKey(1029)}
StrKeys == {StrKey(0)}
ListKeys == {ListKey(0)}
HashableKeys == IntKeys \cup StrKeys
AllKeys == HashableKeys \cup ListKeys

Values == {"x", "y"}

\* hash() of a str depends on the interpreter's hash seed: one seed puts the
\* str key in the bucket of 1 and 1029, the other in a bucket of its own.
StrHashes == {0 - 1027, 7}

VARIABLES
    _hash_space,      \* my_dict.py:13  bucket table: the allocated slots
                      \*   (index -> list); every other index holds None
    _active_hashes,   \* my_dict.py:14
    _keys,            \* my_dict.py:15
    _order_index,     \* my_dict.py:16
    str_hash,         \* value of hash() on the str key in this process
    call,             \* the last operation called, its arguments, and
                      \*   whether its key was present, and had ever been
                      \*   inserted, when it was called
    ret,              \* what that call returned or raised
    prev,             \* the container as it was when that call was made
    assoc,            \* history: insertion-ordered association list of
                      \*   <<key, value, number given when the key came in>>
    first_seen,       \* history: <<key, number given>> of every key ever
                      \*   inserted, in the order of their first insertion
    assigned          \* history: the order number of every DataPair ever
                      \*   created for an absent key, in order of creation

vars == <<_hash_space, _active_hashes, _keys, _order_index, str_hash,
          call, ret, prev, assoc, first_seen, assigned>>

container == <<_hash_space, _active_hashes, _keys, _order_index>>

----------------------------------------------------------------------------
\* Python values of the model

\* a slot of _hash_space: None, or a list object
None == [alloc |-> FALSE, list |-> <<>>]
List(s) == [alloc |-> TRUE, list |-> s]

DataPair(key, value, order) == [key |-> key, value |-> value, order |-> order]

\* results of a call
Returned(kind, val) == [kind |-> kind, val |-> val]
RetNone == Returned("None", "None")
Raised(exc) == Returned(exc, exc)

\* variant: every object can be hashed
HashableAny(key) == TRUE

\* hash(key) raises TypeError on a list
Hashable(key) == key.kind # "list"

\* hash(key): an int hashes to itself (small non-negative ints), a str to a
\* seed-dependent number.
hash(key, seed) == IF key.kind = "int" THEN key.n ELSE seed

\* my_dict.py:99-102
_get_hash_by_key(key, seed) == hash(key, seed) % HASH_LIMIT

\* key_a < key_b in Python: defined inside one type only
Comparable(a, b) == a.kind = b.kind
KeyLt(a, b) == a.n < b.n

\* bisect.bisect_left(a, x, key=lambda pair: pair.key), 0-based result
RECURSIVE bisect_left(_, _, _, _)
bisect_left(a, x, lo, hi) ==
    IF lo < hi
    THEN LET mid == (lo + hi) \div 2 IN
         IF ~Comparable(a[mid + 1].key, x)
         THEN [raised |-> TRUE, index |-> 0]
         ELSE IF KeyLt(a[mid + 1].key, x)
              THEN bisect_left(a, x, mid + 1, hi)
              ELSE bisect_left(a, x, lo, mid)
    ELSE [raised |-> FALSE, index |-> lo]

\* bisect.bisect_right(a, x, key=lambda pair: pair.key), 0-based result
RECURSIVE bisect_right(_, _, _, _)
bisect_right(a, x, lo, hi) ==
    IF lo < hi
    THEN LET mid == (lo + hi) \div 2 IN
         IF ~Comparable(x, a[mid + 1].key)
         THEN [raised |-> TRUE, index |-> 0]
         ELSE IF KeyLt(x, a[mid + 1].key)
              THEN bisect_right(a, x, lo, mid)
              ELSE bisect_right(a, x, mid + 1, hi)
    ELSE [raised |-> FALSE, index |-> lo]

\* variant: list.append(x)
ListAppend(a, i, x) == Append(a, x)

\* list.insert(i, x) with 0-based i
ListInsert(a, i, x) == SubSeq(a, 1, i) \o <<x>> \o SubSeq(a, i + 1, Len(a))

\* variant: list.pop(), the last element goes
ListPopLast(a, i) == SubSeq(a, 1, Len(a) - 1)

\* list.pop(i) with 0-based i: the remaining list
ListPop(a, i) == SubSeq(a, 1, i) \o SubSeq(a, i + 2, Len(a))

\* variant: nothing is removed
discard_nothing(set, x) == set

\* set.discard(x)
discard(set, x) == set \ {x}

\* variant: the replacing pair takes the next order number
ReplacingPairBumped(old_key_value_pair, key, value) ==
    DataPair(key, value, old_key_value_pair.order + 1)

\* my_dict.py:61   the pair that replaces the pair of a present key
ReplacingPair(old_key_value_pair, key, value) ==
    DataPair(key, value, old_key_value_pair.order)

\* variant: the counter is left where it was
NextOrderStuck(order_index) == order_index

\* my_dict.py:65   self._order_index += 1
NextOrder(order_index) == order_index + 1

\* variant: bisect_right in place of bisect_left
_get_space_index_by_key_right(value_space, value_key) ==
    bisect_right(value_space, value_key, 0, Len(value_space))

\* my_dict.py:109-112
_get_space_index_by_key(value_space, value_key) ==
    bisect_left(value_space, value_key, 0, Len(value_space))

\* self._hash_space[hash_index], hash_index in 0..HASH_LIMIT-1
Slot(hs, hash_index) ==
    IF hash_index \in DOMAIN hs THEN List(hs[hash_index]) ELSE None

\* self._hash_space[hash_index] = value_space
SlotAssign(hs, hash_index, value_space) ==
    [i \in DOMAIN hs \cup {hash_index} |->
        IF i = hash_index THEN value_space ELSE hs[i]]

\* my_dict.py:104-107
_get_value_space(hs, key, seed) == Slot(hs, _get_hash_by_key(key, seed))

----------------------------------------------------------------------------
\* The container as a record, so that an operation is a function of it.
Self == [hs |-> _hash_space, ah |-> _active_hashes, ks |-> _keys,
         oi |-> _order_index]

\* my_dict.py:18-37   __getitem__: the result of the call
__getitem__(self, key, seed) ==
    IF ~Hashable(key) THEN Raised("TypeError")
    ELSE IF key \notin self.ks THEN RetNone
    ELSE LET space == _get_value_space(self.hs, key, seed)
             value_space == space.list
             found == _get_space_index_by_key(value_space, key)
         IN  IF ~space.alloc \/ found.raised THEN Raised("TypeError")
             ELSE IF found.index >= Len(value_space) THEN Raised("IndexError")
             ELSE Returned("value", value_space[found.index + 1].value)

\* my_dict.py:39-68   __setitem__: the container after the call and the result
__setitem__(self, key, value, seed) ==
    IF ~Hashable(key) THEN [self |-> self, ret |-> Raised("TypeError")]
    ELSE
    LET key_hash == _get_hash_by_key(key, seed)
        ah1 == self.ah \cup {key_hash}
        hs1 == IF _get_value_space(self.hs, key, seed).alloc THEN self.hs
               ELSE SlotAssign(self.hs, key_hash, <<>>)
        value_space == hs1[key_hash]
        s1 == [self EXCEPT !.ah = ah1, !.hs = hs1]
    IN
    IF key \in self.ks
    THEN LET found == _get_space_index_by_key(value_space, key) IN
         IF found.raised THEN [self |-> s1, ret |-> Raised("TypeError")]
         ELSE IF found.index >= Len(value_space)
              THEN [self |-> s1, ret |-> Raised("IndexError")]
         ELSE LET old_key_value_pair == value_space[found.index + 1]
                  key_value_pair == ReplacingPair(old_key_value_pair, key, value)
                  hs2 == [hs1 EXCEPT ![key_hash] =
                            [value_space EXCEPT ![found.index + 1] = key_value_pair]]
              IN  [self |-> [s1 EXCEPT !.hs = hs2, !.ks = self.ks \cup {key}],
                   ret |-> RetNone]
    ELSE LET key_value_pair == DataPair(key, value, self.oi)
             s2 == [s1 EXCEPT !.oi = NextOrder(self.oi)]
             at == bisect_right(value_space, key, 0, Len(value_space))
         IN  IF at.raised THEN [self |-> s2, ret |-> Raised("TypeError")]
             ELSE LET hs2 == [hs1 EXCEPT ![key_hash] =
                                ListInsert(value_space, at.index, key_value_pair)]
                  IN  [self |-> [s2 EXCEPT !.hs = hs2, !.ks = self.ks \cup {key}],
                       ret |-> RetNone]

\* my_dict.py:87-95   __delitem__ past its early return
DeletePresent(self, key, seed) ==
    LET key_hash == _get_hash_by_key(key, seed)
        space == _get_value_space(self.hs, key, seed)
        value_space == space.list
        found == _get_space_index_by_key(value_space, key)
    IN
    IF ~space.alloc \/ found.raised
    THEN [self |-> self, ret |-> Raised("TypeError")]
    ELSE IF found.index >= Len(value_space)
         THEN [self |-> self, ret |-> Raised("IndexError")]
    ELSE LET popped == ListPop(value_space, found.index)
             hs1 == [self.hs EXCEPT ![key_hash] = popped]
             ah1 == IF popped = <<>> THEN discard(self.ah, key_hash) ELSE self.ah
         IN  [self |-> [self EXCEPT !.hs = hs1, !.ah = ah1,
                                    !.ks = discard(self.ks, key)],
              ret |-> RetNone]

\* variant: deleting an absent key raises KeyError, as the built-in dict does
__delitem__KeyError(self, key, seed) ==
    IF ~Hashable(key) THEN [self |-> self, ret |-> Raised("TypeError")]
    ELSE IF key \notin self.ks THEN [self |-> self, ret |-> Raised("KeyError")]
    ELSE DeletePresent(self, key, seed)

\* my_dict.py:70-95   __delitem__: the container after the call and the result
__delitem__(self, key, seed) ==
    IF ~Hashable(key) THEN [self |-> self, ret |-> Raised("TypeError")]
    ELSE IF key \notin self.ks THEN [self |-> self, ret |-> RetNone]
    ELSE DeletePresent(self, key, seed)

\* my_dict.py:156-165   __contains__
__contains__(self, item) ==
    IF ~Hashable(item) THEN Raised("TypeError")
    ELSE Returned("bool", item \in self.ks)

\* variant: sorted(..., reverse=True)
RECURSIVE InsertByOrderReversed(_, _)
InsertByOrderReversed(sorted, pair) ==
    IF sorted = <<>> THEN <<pair>>
    ELSE IF pair.order > sorted[Len(sorted)].order
         THEN Append(InsertByOrderReversed(SubSeq(sorted, 1, Len(sorted) - 1), pair),
                     sorted[Len(sorted)])
         ELSE Append(sorted, pair)

\* sorted(all_items, key=lambda pair: pair.order): a stable sort
RECURSIVE InsertByOrder(_, _)
InsertByOrder(sorted, pair) ==
    IF sorted = <<>> THEN <<pair>>
    ELSE IF pair.order < sorted[Len(sorted)].order
         THEN Append(InsertByOrder(SubSeq(sorted, 1, Len(sorted) - 1), pair),
                     sorted[Len(sorted)])
         ELSE Append(sorted, pair)

RECURSIVE SortedByOrder(_)
SortedByOrder(items) ==
    IF items = <<>> THEN <<>>
    ELSE InsertByOrder(SortedByOrder(SubSeq(items, 1, Len(items) - 1)),
                       items[Len(items)])

\* sum(all_value_spaces, start=list()) over the active indices, taken in
\* ascending order (with pairwise distinct order numbers the sort below
\* makes the iteration order of the set irrelevant)
RECURSIVE ConcatSpaces(_, _)
ConcatSpaces(hs, indices) ==
    IF indices = {} THEN <<>>
    ELSE LET hash_index == CHOOSE i \in indices : \A j \in indices : i <= j
         IN  hs[hash_index] \o ConcatSpaces(hs, indices \ {hash_index})

\* variant: the gathered pairs are returned without the sort
_get_all_items_unsorted(self) ==
    IF \E hash_index \in self.ah : ~Slot(self.hs, hash_index).alloc
    THEN Raised("TypeError")
    ELSE Returned("list", ConcatSpaces(self.hs, self.ah))

\* my_dict.py:114-121   list + None raises TypeError
_get_all_items_sorted(self) ==
    IF \E hash_index \in self.ah : ~Slot(self.hs, hash_index).alloc
    THEN Raised("TypeError")
    ELSE Returned("list", SortedByOrder(ConcatSpaces(self.hs, self.ah)))

\* my_dict.py:123-132
keys(self) ==
    LET items == _get_all_items_sorted(self) IN
    IF items.kind # "list" THEN items
    ELSE Returned("list", [i \in 1..Len(items.val) |-> items.val[i].key])

\* my_dict.py:134-143
values(self) ==
    LET items == _get_all_items_sorted(self) IN
    IF items.kind # "list" THEN items
    ELSE Returned("list", [i \in 1..Len(items.val) |-> items.val[i].value])

\* my_dict.py:145-154
items(self) ==
    LET all == _get_all_items_sorted(self) IN
    IF all.kind # "list" THEN all
    ELSE Returned("list", [i \in 1..Len(all.val) |->
                              <<all.val[i].key, all.val[i].value>>])

\* repr() of a key: an int in decimal, the str key number n as 's<n>' in quotes
repr_key(key) ==
    IF key.kind = "int" THEN ToString(key.n)
    ELSE "'s" \o ToString(key.n) \o "'"

\* repr() of a value, a str
repr_value(value) == "'" \o value \o "'"

\* str() of a list of (key, value) tuples, without the brackets
RECURSIVE repr_tuples(_)
repr_tuples(tuples) ==
    IF tuples = <<>> THEN ""
    ELSE LET head == "(" \o repr_key(tuples[1][1]) \o ", "
                         \o repr_value(tuples[1][2]) \o ")"
             rest == SubSeq(tuples, 2, Len(tuples))
         IN  IF rest = <<>> THEN head
             ELSE head \o ", " \o repr_tuples(rest)

\* my_dict.py:167-174
__str__(self) ==
    LET all == items(self) IN
    IF all.kind # "list" THEN all
    ELSE Returned("str", "[" \o repr_tuples(all.val) \o "]")

----------------------------------------------------------------------------
\* History kept beside the container: what a caller knows from the calls
\* that returned normally.

AssocIndex(list, key) ==
    IF \E i \in 1..Len(list) : list[i][1] = key
    THEN CHOOSE i \in 1..Len(list) : list[i][1] = key
    ELSE 0

\* set: a new key goes to the end, a present key keeps its place and number
AssocSet(list, key, value, number) ==
    IF AssocIndex(list, key) = 0 THEN Append(list, <<key, value, number>>)
    ELSE [list EXCEPT ![AssocIndex(list, key)] = <<key, value, @[3]>>]

AssocDelete(list, key) ==
    IF AssocIndex(list, key) = 0 THEN list
    ELSE SubSeq(list, 1, AssocIndex(list, key) - 1)
         \o SubSeq(list, AssocIndex(list, key) + 1, Len(list))

\* what the history says get(key) is
AssocGet(list, key) ==
    IF AssocIndex(list, key) = 0 THEN RetNone
    ELSE Returned("value", list[AssocIndex(list, key)][2])

AssocKeys(list) == {list[i][1] : i \in 1..Len(list)}

\* the order number carried by the pair stored for key
StoredOrder(hs, key, seed) ==
    LET value_space == _get_value_space(hs, key, seed).list
    IN  value_space[CHOOSE i \in 1..Len(value_space) :
                       value_space[i].key = key].order

----------------------------------------------------------------------------
Call(op, key, value) ==
    [op |-> op, key |-> key, value |-> value, present |-> key \in _keys,
     seen |-> AssocIndex(first_seen, key) > 0]

\* my_dict.py:12-16
Init ==
    /\ _hash_space = [i \in {} |-> <<>>]
    /\ _active_hashes = {}
    /\ _keys = {}
    /\ _order_index = 0
    /\ str_hash \in StrHashes
    /\ ret = RetNone
    /\ prev = [hs |-> [i \in {} |-> <<>>], ah |-> {}, ks |-> {}, oi |-> 0]
    /\ assoc = <<>>
    /\ first_seen = <<>>
    /\ assigned = <<>>
    /\ call = Call("init", IntKey(0), "None")

Store(self) ==
    /\ _hash_space' = self.hs
    /\ _active_hashes' = self.ah
    /\ _keys' = self.ks
    /\ _order_index' = self.oi

\* my_dict[key] = value
Set(key, value) ==
    LET out == __setitem__(Self, key, value, str_hash) IN
    /\ out.self.oi <= MaxOrder
    /\ Store(out.self)
    /\ call' = Call("set", key, value)
    /\ ret' = out.ret
    /\ prev' = Self
    /\ assoc' = IF out.ret = RetNone
                THEN AssocSet(assoc, key, value, _order_index) ELSE assoc
    /\ first_seen' = IF out.ret = RetNone /\ AssocIndex(first_seen, key) = 0
                     THEN Append(first_seen, <<key, _order_index>>)
                     ELSE first_seen
    /\ assigned' = IF out.ret = RetNone /\ key \notin _keys
                   THEN Append(assigned, StoredOrder(out.self.hs, key, str_hash))
                   ELSE assigned
    /\ UNCHANGED str_hash

\* del my_dict[key]
Delete(key) ==
    LET out == __delitem__(Self, key, str_hash) IN
    /\ Store(out.self)
    /\ call' = Call("delete", key, "None")
    /\ ret' = out.ret
    /\ prev' = Self
    /\ assoc' = IF out.ret = RetNone THEN AssocDelete(assoc, key) ELSE assoc
    /\ UNCHANGED <<str_hash, first_seen, assigned>>

\* variant: a lookup allocates the bucket of its key, as a defaultdict would
GetAllocating(key) ==
    /\ call' = Call("get", key, "None")
    /\ ret' = __getitem__(Self, key, str_hash)
    /\ prev' = Self
    /\ _hash_space' = IF Hashable(key) /\ ~_get_value_space(_hash_space, key, str_hash).alloc
                      THEN SlotAssign(_hash_space, _get_hash_by_key(key, str_hash), <<>>)
                      ELSE _hash_space
    /\ UNCHANGED <<_active_hashes, _keys, _order_index, str_hash, assoc,
                   first_seen, assigned>>

\* my_dict[key]
Get(key) ==
    /\ call' = Call("get", key, "None")
    /\ ret' = __getitem__(Self, key, str_hash)
    /\ prev' = Self
    /\ UNCHANGED <<container, str_hash, assoc, first_seen, assigned>>

\* key in my_dict
Contains(key) ==
    /\ call' = Call("contains", key, "None")
    /\ ret' = __contains__(Self, key)
    /\ prev' = Self
    /\ UNCHANGED <<container, str_hash, assoc, first_seen, assigned>>

\* my_dict.keys()
Keys ==
    /\ call' = Call("keys", IntKey(0), "None")
    /\ ret' = keys(Self)
    /\ prev' = Self
    /\ UNCHANGED <<container, str_hash, assoc, first_seen, assigned>>

\* my_dict.values()
ValuesCall ==
    /\ call' = Call("values", IntKey(0), "None")
    /\ ret' = values(Self)
    /\ prev' = Self
    /\ UNCHANGED <<container, str_hash, assoc, first_seen, assigned>>

\* my_dict.items()
Items ==
    /\ call' = Call("items", IntKey(0), "None")
    /\ ret' = items(Self)
    /\ prev' = Self
    /\ UNCHANGED <<container, str_hash, assoc, first_seen, assigned>>

\* str(my_dict)
Str ==
    /\ call' = Call("str", IntKey(0), "None")
    /\ ret' = __str__(Self)
    /\ prev' = Self
    /\ UNCHANGED <<container, str_hash, assoc, first_seen, assigned>>

Next ==
    \/ \E key \in AllKeys, value \in Values : Set(key, value)
    \/ \E key \in AllKeys : Delete(key)
    \/ \E key \in AllKeys : Get(key)
    \/ \E key \in AllKeys : Contains(key)
    \/ Keys
    \/ ValuesCall
    \/ Items
    \/ Str

Spec == Init /\ [][Next]_vars

----------------------------------------------------------------------------
\* Properties

\* position of x in the sequence s, 0 when x does not occur
Index(s, x) ==
    IF \E i \in 1..Len(s) : s[i] = x THEN CHOOSE i \in 1..Len(s) : s[i] = x
    ELSE 0

\* the value the history gives a present key
AssocValue(key) == assoc[AssocIndex(assoc, key)][2]

\* C1: after any sequence of set and delete, get(k) returns the value of the
\* most recent set(k, v) that no delete(k) followed, and None when k was
\* never set or was deleted since; get(k) right after set(k, v) returns v.
C1_GetReturnsLastSet ==
    /\ \A key \in HashableKeys :
          __getitem__(Self, key, str_hash) = AssocGet(assoc, key)
    /\ (call.op = "set" /\ ret = RetNone)
          => __getitem__(Self, call.key, str_hash) = Returned("value", call.value)
    /\ (call.op = "get" /\ call.key \in HashableKeys)
          => ret = AssocGet(assoc, call.key)

\* get(1029) returned the updated value while 1 shares its bucket and the
\* str key, once stored in that same bucket, has been deleted
C1_Witness ==
    /\ call.op = "get" /\ call.key = IntKey(1029)
    /\ ret = Returned("value", "y")
    /\ IntKey(1) \in _keys
    /\ AssocIndex(first_seen, StrKey(0)) > 0 /\ StrKey(0) \notin _keys
    /\ _get_hash_by_key(StrKey(0), str_hash) = _get_hash_by_key(IntKey(1), str_hash)

\* C2: set(k, v2) on a present key k leaves keys() unchanged and changes
\* values() and items() only at k's position, where the value becomes v2.
C2_UpdateKeepsPosition ==
    (call.op = "set" /\ call.present) =>
        /\ ret = RetNone
        /\ keys(prev).kind = "list"
        /\ keys(Self) = keys(prev)
        /\ LET i == Index(keys(prev).val, call.key) IN
           /\ i > 0
           /\ values(Self) =
                Returned("list", [values(prev).val EXCEPT ![i] = call.value])
           /\ items(Self) =
                Returned("list", [items(prev).val EXCEPT
                                    ![i] = <<call.key, call.value>>])

\* 1029 came first and was then set again: it still precedes 1
C2_Witness ==
    /\ call.op = "set" /\ call.present /\ call.key = IntKey(1029)
    /\ call.value = "y"
    /\ items(prev) = Returned("list", << <<IntKey(1029), "x">>, <<IntKey(1), "x">> >>)
    /\ items(Self) = Returned("list", << <<IntKey(1029), "y">>, <<IntKey(1), "x">> >>)

\* a came into the container before b did
Before(a, b) == AssocIndex(assoc, a) < AssocIndex(assoc, b)

C3_Listed ==
    /\ keys(Self).kind = "list" /\ values(Self).kind = "list"
    /\ items(Self).kind = "list"
    /\ \A a \in _keys, b \in _keys :
          Before(a, b) =>
            /\ 0 < Index(keys(Self).val, a)
            /\ Index(keys(Self).val, a) < Index(keys(Self).val, b)
            /\ values(Self).val[Index(keys(Self).val, a)] = AssocValue(a)
            /\ values(Self).val[Index(keys(Self).val, b)] = AssocValue(b)
            /\ 0 < Index(items(Self).val, <<a, AssocValue(a)>>)
            /\ Index(items(Self).val, <<a, AssocValue(a)>>)
                 < Index(items(Self).val, <<b, AssocValue(b)>>)

C3_Churn ==
    (call.op \in {"set", "delete"}) =>
        \A a \in prev.ks \ {call.key}, b \in prev.ks \ {call.key} :
            /\ a \in _keys /\ b \in _keys
            /\ (Index(keys(prev).val, a) < Index(keys(prev).val, b))
                 <=> (Index(keys(Self).val, a) < Index(keys(Self).val, b))

PairOf(key) ==
    LET all == _get_all_items_sorted(Self).val
    IN  all[CHOOSE i \in 1..Len(all) : all[i].key = key]

\* the number the key was given the first time it was ever inserted
FirstNumber(key) == first_seen[AssocIndex(first_seen, key)][2]

\* the number the key was given when it last came into the container
IntroNumber(key) == assoc[AssocIndex(assoc, key)][3]

C4_ListsPresentKeys ==
    /\ keys(Self).kind = "list"
    /\ Len(keys(Self).val) = Cardinality(_keys)
    /\ {keys(Self).val[i] : i \in 1..Len(keys(Self).val)} = _keys

\* C4 as stated: the order number of a present key's pair is the number given
\* the first time the key was ever inserted, and keys(), values(), items()
\* are sorted by the time of each key's first-ever set.
C4_FirstEverOrder ==
    /\ C4_ListsPresentKeys
    /\ \A key \in _keys : PairOf(key).order = FirstNumber(key)
    /\ \A a \in _keys, b \in _keys :
          AssocIndex(first_seen, a) < AssocIndex(first_seen, b)
            => Index(keys(Self).val, a) < Index(keys(Self).val, b)

\* C4 amended: the order number of a present key's pair is the number given
\* when the key last came into the container (its first set ever, or its
\* first set since it was last deleted), and keys(), values(), items() list
\* the present keys sorted by that number.
C4_LastIntroductionOrder ==
    /\ C4_ListsPresentKeys
    /\ \A key \in _keys : PairOf(key).order = IntroNumber(key)
    /\ \A a \in _keys, b \in _keys :
          IntroNumber(a) < IntroNumber(b)
            => /\ Index(keys(Self).val, a) < Index(keys(Self).val, b)
               /\ values(Self).val[Index(keys(Self).val, a)] = AssocValue(a)
               /\ items(Self).val[Index(keys(Self).val, b)] = <<b, AssocValue(b)>>

\* 1 was inserted first, deleted and inserted again: it now follows 1029
C4_Witness ==
    /\ first_seen = << <<IntKey(1), 0>>, <<IntKey(1029), 1>> >>
    /\ keys(Self) = Returned("list", <<IntKey(1029), IntKey(1)>>)
    /\ PairOf(IntKey(1)).order = 2

\* C5: contains(k) is true exactly for the keys with a successful set that no
\* delete followed.
C5_ContainsIsHistory ==
    /\ \A key \in HashableKeys :
          __contains__(Self, key) = Returned("bool", key \in AssocKeys(assoc))
    /\ (call.op = "contains" /\ call.key \in HashableKeys)
          => ret = Returned("bool", call.key \in AssocKeys(assoc))

\* contains(1) answered False after 1 was deleted from the bucket it shared
\* with 1029
C5_Witness ==
    /\ call.op = "contains" /\ call.key = IntKey(1)
    /\ ret = Returned("bool", FALSE)
    /\ AssocIndex(first_seen, IntKey(1)) > 0
    /\ IntKey(1029) \in _keys

\* C6: after delete(k) of a present key, get(k) returns None, contains(k) is
\* false and k occurs neither in keys() nor in items().
C6_DeleteRemoves ==
    (call.op = "delete" /\ call.present) =>
        /\ ret = RetNone
        /\ __getitem__(Self, call.key, str_hash) = RetNone
        /\ __contains__(Self, call.key) = Returned("bool", FALSE)
        /\ keys(Self).kind = "list" /\ items(Self).kind = "list"
        /\ \A i \in 1..Len(keys(Self).val) : keys(Self).val[i] # call.key
        /\ \A i \in 1..Len(items(Self).val) : items(Self).val[i][1] # call.key

\* 1 was deleted from the bucket it shared with 1029, and the str key had
\* been the last pair of its own bucket
C6_Witness ==
    /\ call.op = "delete" /\ call.present /\ call.key = IntKey(1)
    /\ IntKey(1029) \in _keys
    /\ Slot(_hash_space, _get_hash_by_key(StrKey(0), str_hash)) = List(<<>>)

\* C7: delete(k) of a key that is not present raises nothing and leaves the
\* bucket table, the active set, the key set and the counter as they were.
C7_DeleteAbsentIsNoop ==
    (call.op = "delete" /\ call.key \in HashableKeys /\ ~call.present) =>
        /\ ret = RetNone
        /\ Self = prev

\* a second delete of the same key, with another key still stored
C7_Witness ==
    /\ call.op = "delete" /\ call.key \in HashableKeys /\ ~call.present
    /\ AssocIndex(first_seen, call.key) > 0
    /\ _keys # {}

\* C8: set and delete with a key that cannot be hashed raise TypeError and
\* mutate nothing.
C8_UnhashableRaises ==
    (call.op \in {"set", "delete"} /\ call.key \in ListKeys) =>
        /\ ret = Raised("TypeError")
        /\ Self = prev

\* set with a list as key was refused by a container that holds pairs
C8_Witness ==
    /\ call.op = "set" /\ call.key = ListKey(0)
    /\ ret = Raised("TypeError")
    /\ Cardinality(_keys) = 2

\* C9: a set that fails because the key cannot be compared with the keys of
\* its bucket leaves the container as it was, the order counter included.
C9_FailedSetIsAtomic ==
    (call.op = "set" /\ call.key \in HashableKeys /\ ret = Raised("TypeError")) =>
        Self = prev

\* the pairs stored at a bucket index (none when the slot is None)
Bucket(hash_index) == Slot(_hash_space, hash_index).list

Occurrences(list, key) == Cardinality({i \in 1..Len(list) : list[i].key = key})

\* C10: a key is in the key set iff its own bucket holds exactly one pair for
\* it; no bucket holds two pairs of one key or a pair of a key of another
\* bucket; the number of stored pairs is the size of the key set.
C10_KeySetMatchesBuckets ==
    /\ \A key \in HashableKeys :
          key \in _keys
            <=> Occurrences(Bucket(_get_hash_by_key(key, str_hash)), key) = 1
    /\ DOMAIN _hash_space \subseteq 0..(HASH_LIMIT - 1)
    /\ \A hash_index \in DOMAIN _hash_space :
          \A i \in 1..Len(Bucket(hash_index)) :
             /\ _get_hash_by_key(Bucket(hash_index)[i].key, str_hash) = hash_index
             /\ Occurrences(Bucket(hash_index), Bucket(hash_index)[i].key) = 1
    /\ Len(ConcatSpaces(_hash_space, DOMAIN _hash_space)) = Cardinality(_keys)

\* two pairs share bucket 1 while the bucket of the str key is allocated and
\* empty
C10_Witness ==
    /\ Len(Bucket(_get_hash_by_key(IntKey(1), str_hash))) = 2
    /\ Slot(_hash_space, _get_hash_by_key(StrKey(0), str_hash)) = List(<<>>)
    /\ Cardinality(_keys) = 2

\* every stored pair, bucket after bucket
AllPairs == ConcatSpaces(_hash_space, DOMAIN _hash_space)

\* the bucket index of the key of the last call
CallHash == _get_hash_by_key(call.key, str_hash)

\* C11: the active set is exactly the set of indices whose list holds a pair
\* and every active index is allocated; set activates the bucket it inserts
\* into, delete deactivates a bucket exactly when it removes its last pair;
\* a traversal meets every stored pair.
C11_ActiveIsNonEmpty ==
    /\ _active_hashes \subseteq DOMAIN _hash_space
    /\ _active_hashes = {h \in DOMAIN _hash_space : _hash_space[h] # <<>>}
    /\ (call.op = "set" /\ call.key \in HashableKeys /\ ret = RetNone)
          => CallHash \in _active_hashes
    /\ (call.op = "delete" /\ call.present)
          => /\ CallHash \in prev.ah
             /\ (CallHash \notin _active_hashes) <=> (Len(prev.hs[CallHash]) = 1)
             /\ _active_hashes \ {CallHash} = prev.ah \ {CallHash}
    /\ _get_all_items_sorted(Self).kind = "list"
    /\ Len(_get_all_items_sorted(Self).val) = Len(AllPairs)
    /\ \A i \in 1..Len(AllPairs) :
          \E j \in 1..Len(AllPairs) : _get_all_items_sorted(Self).val[j] = AllPairs[i]

\* the str key was the last pair of bucket 7, which stays allocated but is
\* no longer active, while bucket 1 keeps one of its two pairs and stays active
C11_Witness ==
    /\ call.op = "delete" /\ call.present /\ call.key = IntKey(1)
    /\ _active_hashes = {1}
    /\ DOMAIN _hash_space = {1, 7}
    /\ _hash_space[7] = <<>>
    /\ Len(_hash_space[1]) = 1

\* C12: every allocated bucket is sorted strictly ascending by key, so the
\* binary search finds, for every present key, an index inside its bucket
\* whose pair has exactly that key.
C12_BucketsSorted ==
    /\ \A h \in DOMAIN _hash_space :
          \A i \in 1..(Len(_hash_space[h]) - 1) :
             /\ _hash_space[h][i].key.kind = _hash_space[h][i + 1].key.kind
             /\ _hash_space[h][i].key.n < _hash_space[h][i + 1].key.n
    /\ \A key \in _keys :
          LET value_space == _get_value_space(_hash_space, key, str_hash).list
              found == _get_space_index_by_key(value_space, key)
          IN  /\ ~found.raised
              /\ found.index < Len(value_space)
              /\ value_space[found.index + 1].key = key

\* 1029 was inserted before 1, and the bucket holds 1 before 1029
C12_Witness ==
    /\ 1 \in DOMAIN _hash_space
    /\ _hash_space[1] = <<DataPair(IntKey(1), "x", 1), DataPair(IntKey(1029), "y", 0)>>

\* C13: the counter never decreases; a new pair gets a number greater than
\* every number given before, those of deleted pairs included; the numbers of
\* the stored pairs are pairwise distinct and smaller than the counter.
C13_OrderNumbers ==
    /\ _order_index >= prev.oi
    /\ \A i \in 1..Len(assigned), j \in 1..Len(assigned) :
          i < j => assigned[i] < assigned[j]
    /\ \A i \in 1..Len(assigned) : assigned[i] < _order_index
    /\ (call.op = "set" /\ call.key \in HashableKeys /\ ~call.present
          /\ ret = RetNone)
          => /\ assigned # <<>>
             /\ StoredOrder(_hash_space, call.key, str_hash) = assigned[Len(assigned)]
    /\ \A i \in 1..Len(AllPairs) :
          /\ AllPairs[i].order < _order_index
          /\ \E n \in 1..Len(assigned) : assigned[n] = AllPairs[i].order
          /\ \A j \in 1..Len(AllPairs) :
                i # j => AllPairs[i].order # AllPairs[j].order

\* number 0 went to a pair since deleted, number 1 was used up by a set that
\* raised, and the only stored pair carries number 2
C13_Witness ==
    /\ assigned = <<0, 2>>
    /\ _order_index = 3
    /\ Len(AllPairs) = 1
    /\ AllPairs[1].order = 2

\* the (key, value) pairs of the association list of the history
AbstractItems == [i \in 1..Len(assoc) |-> <<assoc[i][1], assoc[i][2]>>]

\* C14: items() equals the insertion-ordered association list kept beside
\* the container (a new key appended, a present key replaced in place, a
\* deleted key removed); keys() and values() are its projections, the string
\* form is its text, and every present key occurs exactly once.
C14_RefinesAssocList ==
    /\ items(Self) = Returned("list", AbstractItems)
    /\ keys(Self) = Returned("list", [i \in 1..Len(assoc) |-> assoc[i][1]])
    /\ values(Self) = Returned("list", [i \in 1..Len(assoc) |-> assoc[i][2]])
    /\ __str__(Self) = Returned("str", "[" \o repr_tuples(AbstractItems) \o "]")
    /\ AssocKeys(assoc) = _keys
    /\ \A key \in _keys :
          Cardinality({i \in 1..Len(assoc) : keys(Self).val[i] = key}) = 1
    /\ (call.op = "items") => ret = Returned("list", AbstractItems)
    /\ (call.op = "str")
          => ret = Returned("str", "[" \o repr_tuples(AbstractItems) \o "]")

\* the text of a container that holds 1029 and the str key after 1, the
\* first key inserted, was deleted
C14_Witness ==
    /\ call.op = "str"
    /\ ret = Returned("str", "[(1029, 'x'), ('s0', 'y')]")
    /\ AssocIndex(first_seen, IntKey(1)) > 0

\* C15: set(k, v) on a present key changes only the value of k's pair: its
\* order number, the counter, the key set, the active set, the length of
\* every bucket and the pair of every other key stay as they were.
C15_UpdateFrame ==
    (call.op = "set" /\ call.present) =>
        /\ ret = RetNone
        /\ _order_index = prev.oi
        /\ _keys = prev.ks
        /\ _active_hashes = prev.ah
        /\ DOMAIN _hash_space = DOMAIN prev.hs
        /\ \A h \in DOMAIN prev.hs :
              /\ Len(_hash_space[h]) = Len(prev.hs[h])
              /\ \A i \in 1..Len(prev.hs[h]) :
                    _hash_space[h][i] =
                       IF prev.hs[h][i].key = call.key
                       THEN DataPair(call.key, call.value, prev.hs[h][i].order)
                       ELSE prev.hs[h][i]

\* the value of 1 went from x to y in the bucket it shares with 1029
C15_Witness ==
    /\ call.op = "set" /\ call.present /\ call.key = IntKey(1)
    /\ Len(prev.hs[1]) = 2
    /\ prev.hs[1][1].value = "x"
    /\ _hash_space[1][1].value = "y"

\* the set of the pairs stored in a bucket table
PairSet(hs) == UNION {{hs[h][i] : i \in 1..Len(hs[h])} : h \in DOMAIN hs}

\* C16: delete(k) on a present key removes exactly the pair of k: every other
\* key keeps its bucket, value and order number, and the counter stays.
C16_DeleteFrame ==
    (call.op = "delete" /\ call.present) =>
        /\ ret = RetNone
        /\ _order_index = prev.oi
        /\ _keys = prev.ks \ {call.key}
        /\ PairSet(_hash_space) = {pair \in PairSet(prev.hs) : pair.key # call.key}
        /\ Cardinality(PairSet(_hash_space)) = Cardinality(PairSet(prev.hs)) - 1
        /\ Len(AllPairs) = Cardinality(PairSet(_hash_space))
        /\ DOMAIN _hash_space = DOMAIN prev.hs
        /\ \A h \in DOMAIN prev.hs \ {CallHash} : _hash_space[h] = prev.hs[h]

\* 1 was deleted from the bucket it shared with 1029 while the str key sat
\* in another bucket
C16_Witness ==
    /\ call.op = "delete" /\ call.present /\ call.key = IntKey(1)
    /\ _keys = {IntKey(1029), StrKey(0)}
    /\ Len(prev.hs[1]) = 2

\* C17: a key that is set again after it was deleted gets a new pair with a
\* newly allocated order number, and comes last in keys(), values() and
\* items(), after every key present at that time.
C17_ReinsertIsLast ==
    (call.op = "set" /\ call.key \in HashableKeys /\ call.seen
       /\ ~call.present /\ ret = RetNone) =>
        /\ \A pair \in PairSet(prev.hs) :
              pair.order < StoredOrder(_hash_space, call.key, str_hash)
        /\ \A i \in 1..(Len(assigned) - 1) :
              assigned[i] < StoredOrder(_hash_space, call.key, str_hash)
        /\ FirstNumber(call.key) < StoredOrder(_hash_space, call.key, str_hash)
        /\ keys(prev).kind = "list"
        /\ keys(Self) = Returned("list", Append(keys(prev).val, call.key))
        /\ values(Self) = Returned("list", Append(values(prev).val, call.value))
        /\ items(Self) =
              Returned("list", Append(items(prev).val, <<call.key, call.value>>))

\* 1 was the first key inserted; deleted and set again it follows 1029
C17_Witness ==
    /\ call.op = "set" /\ call.seen /\ ~call.present /\ ret = RetNone
    /\ call.key = IntKey(1)
    /\ FirstNumber(IntKey(1)) = 0
    /\ keys(Self) = Returned("list", <<IntKey(1029), IntKey(1)>>)

\* C18: get, contains, keys, values, items and the string form leave the
\* bucket table, the active set, the key set and the counter as they were.
C18_ReadsLeaveContainer ==
    (\/ call.op \in {"get", "contains"} /\ call.key \in HashableKeys
     \/ call.op \in {"keys", "values", "items", "str"})
        => Self = prev

\* get of an absent key whose bucket was never allocated, in a container
\* that holds another key
C18_Witness ==
    /\ call.op = "get" /\ call.key = StrKey(0) /\ ~call.present
    /\ ret = RetNone
    /\ _get_hash_by_key(StrKey(0), str_hash) \notin DOMAIN _hash_space
    /\ _keys # {}

====
